---- MODULE Spec2Model ----
(***************************************************************************)
(* Model of the visualization package.                                     *)
(*                                                                         *)
(* Spec: audio_player.py (class AudioPlayer) after construction: the UI    *)
(* thread runs play/stop/seek/restart/update_ui one statement group at a   *)
(* time, interleaved with the steps of the streaming worker threads that   *)
(* play() spawns.  No lock exists in the source, so every access to a      *)
(* shared field (playing, current_time, has_finished, update_needed) is a  *)
(* separate step.  Time is counted in ticks: one sample lasts              *)
(* TicksPerSample ticks, so that int(start_time * samplerate) really       *)
(* rounds down.                                                            *)
(*                                                                         *)
(* StopSpec: Spec, with the blocks a thread writes after a stop() counted. *)
(* TimerSpec: the player driven by the host's refresh timer                *)
(* (plotting_helpers.py), which calls update_ui() only while playing.      *)
(*                                                                         *)
(* LoadSpec: AudioPlayer.load_audio, called by the constructor.            *)
(* NormSpec: plot_utils.detect_and_normalize_amplitude_values.             *)
(* CleanSpec: plot_utils.clean_filename_for_display.                       *)
(* Each of the three takes its input from a bounded set and applies the    *)
(* function as the source computes it.                                     *)
(***************************************************************************)
EXTENDS Integers, Sequences, FiniteSets, TLC

\* ---------------------------------------------------------------- bounds
MaxThreads == 2
NumSamples == 2
TicksPerSample == 2
\* load_audio: the longest file, in bytes, and the largest configured rate
MaxBytes == 4
MaxRate == 2
\* detect_and_normalize_amplitude_values: the longest peak list and the
\* largest amplitude
MaxPeaks == 5
MaxAmp == 2
\* clean_filename_for_display: the longest file name, in characters
MaxLen == 4

\* ------------------------------------------------------- program values
samplerate == 10
TicksPerSecond == samplerate * TicksPerSample
block_size == (samplerate * 1) \div 10
NoData == -1
MaxTime == NumSamples * TicksPerSample + 1
\* a start of the buffer, a time inside it that is no multiple of a sample,
\* and a time past its end
Times == {0, TicksPerSample + 1, MaxTime}
Threads == 1..MaxThreads

\* signals counts the deliveries of the reset-to-ready signal (update_ui, lines
\* 369-378) since has_finished was last written; it is no field of the player.
\* counting is no field either: it says whether the blocks a thread writes
\* after a stop() are counted (after_stop, below), and never changes.
VARIABLES AUDIO_SUPPORT, data, playing, current_time, playback_position,
          has_finished, update_needed, playback_thread, play_button,
          workers, ui, was_playing, signals, counting

\* load_audio: the file at self.audio_file, what sf.read would return for it,
\* the configured PCM rate, the three fields load_audio sets, where
\* load_audio is and what it returned
VARIABLES audio_file, sf_read, PCM_SAMPLE_RATE,
          self_data, self_samplerate, self_duration, load_pc, success

\* detect_and_normalize_amplitude_values: its argument (the amplitude
\* peak[2] of every peak) and what it returned
VARIABLES peaks_data, normalized

\* clean_filename_for_display: its argument and what it returned
VARIABLES filename, cleaned

player == <<AUDIO_SUPPORT, data, playing, current_time, playback_position,
            has_finished, update_needed, playback_thread, play_button,
            workers, ui, was_playing, signals, counting>>

loader == <<audio_file, sf_read, PCM_SAMPLE_RATE,
            self_data, self_samplerate, self_duration, load_pc, success>>

normalizer == <<peaks_data, normalized>>

sanitizer == <<filename, cleaned>>

\* what no method of a constructed player writes
rest == <<loader, normalizer, sanitizer, counting>>

vars == <<player, loader, normalizer, sanitizer>>

engine == <<playing, current_time, playback_position, has_finished,
            update_needed, playback_thread>>

\* ------------------------------------------------------ pure functions
\* len(self.data) / self.samplerate, in ticks
duration == IF data = NoData THEN 0 ELSE (data * TicksPerSecond) \div samplerate

\* StartSample without lines 140-142
StartSample_NoClamp(t) == (t * samplerate) \div TicksPerSecond

\* play: start_sample = int(start_time * samplerate), reset to 0 past the end
StartSample(t) ==
    IF (t * samplerate) \div TicksPerSecond >= data
    THEN 0
    ELSE (t * samplerate) \div TicksPerSecond

\* worker: (start_sample + i) / self.samplerate, in ticks
WorkerTime(start, i) == ((start + i) * TicksPerSecond) \div samplerate

\* a thread: where it is, its start_sample and loop index i (0 again once it
\* has ended), how it left the loop or ended, whether its stream is open.
\* after_stop is no variable of the source: -1 until stop() runs line 294
\* while the thread is in its block loop and counting is on, from then on and until the thread
\* leaves the loop 0 when it has written no block to the stream since, 1
\* when it has.
NoWorker ==
    [pc |-> "none", start |-> 0, i |-> 0, exit |-> "none", open |-> FALSE,
     after_stop |-> -1]

Live(w) == workers[w].pc \notin {"none", "done"}
\* started and not yet out of its block loop
Active(w) == workers[w].pc \in {"loop", "write", "flag"}
LiveSet == {w \in Threads : Live(w)}
ActiveSet == {w \in Threads : Active(w)}
\* threads are numbered in the order play() starts them
Started == {w \in Threads : workers[w].pc # "none"}
NewThread == Cardinality(Started) + 1
CanStart == Cardinality(Started) < MaxThreads

\* The statement groups the UI thread still has to run: op names the group
\* by its method and first line, t is the method's time argument and by the
\* method the widget callback called.
Op(name, t, by) == [op |-> name, t |-> t, by |-> by]
PlayOps(t, by) ==
    <<Op("play_enter", t, by), Op("play_148", t, by), Op("play_149", t, by)>>
StopOps(by) == <<Op("stop_294", 0, by), Op("stop_298", 0, by)>>
SeekOps(t, by) ==
    <<Op("seek_302", t, by)>> \o StopOps(by)
    \o <<Op("seek_307", t, by), Op("seek_330", t, by), Op("seek_333", t, by)>>
RestartOps == StopOps("restart") \o SeekOps(0, "restart") \o PlayOps(0, "restart")
UpdateOps ==
    <<Op("ui_344", 0, "update_ui"), Op("ui_369", 0, "update_ui"),
      Op("ui_380", 0, "update_ui"), Op("ui_381", 0, "update_ui")>>

Drop(s, n) == SubSeq(s, n + 1, Len(s))
At(name) == ui # <<>> /\ Head(ui).op = name

\* ---------------------------------------------- values of the other parts
\* a rational number n/d, d > 0: the floats of the source, computed exactly
Q(n, d) == [n |-> n, d |-> d]
\* self.data = None, and self.data = a, an array of samples
None == [none |-> TRUE, array |-> <<>>]
Array(a) == [none |-> FALSE, array |-> a]
\* no file: self.audio_file is None or ''
NoFile == [name |-> "", exists |-> FALSE, readable |-> FALSE, bytes |-> <<>>]
\* sf.read(self.audio_file) raises
SfRaises == [raises |-> TRUE, data |-> <<>>, samplerate |-> 0]
NotReturned == [returned |-> FALSE, value |-> <<>>]
NotNormalized ==
    [pc |-> "none", amplitudes |-> <<>>, original_amplitudes |-> <<>>,
     sizes |-> <<>>, amplitude_range |-> <<>>]

\* load_audio is not running: the fields as __init__ sets them (lines 25-27)
LoaderOff ==
    /\ audio_file = NoFile
    /\ sf_read = SfRaises
    /\ PCM_SAMPLE_RATE = 1
    /\ self_data = None
    /\ self_samplerate = 0
    /\ self_duration = Q(0, 1)
    /\ load_pc = "off"
    /\ success = "none"

NormalizerOff == peaks_data = <<>> /\ normalized = NotNormalized

SanitizerOff == filename = <<>> /\ cleaned = NotReturned

\* __init__, lines 25-38: the player before load_audio is called
PlayerNew ==
    /\ data = NoData
    /\ playing = FALSE
    /\ current_time = 0
    /\ playback_position = 0
    /\ has_finished = FALSE
    /\ update_needed = FALSE
    /\ playback_thread = 0
    /\ play_button = TRUE
    /\ workers = [w \in Threads |-> NoWorker]
    /\ ui = <<>>
    /\ was_playing = FALSE
    /\ signals = 0
    /\ counting = FALSE

\* plot_utils imports no player
PlayerOff == AUDIO_SUPPORT = FALSE /\ PlayerNew

\* ------------------------------------------------------------- initial
Init ==
    /\ AUDIO_SUPPORT \in BOOLEAN
    /\ data \in {NoData, 0, NumSamples}
    /\ (data # NoData) => AUDIO_SUPPORT
    /\ playing = FALSE
    /\ current_time = 0
    /\ playback_position = 0
    /\ has_finished = FALSE
    /\ update_needed = FALSE
    /\ playback_thread = 0
    /\ play_button = TRUE
    /\ workers = [w \in Threads |-> NoWorker]
    /\ ui = <<>>
    /\ was_playing = FALSE
    /\ signals = 0
    /\ counting = FALSE
    /\ LoaderOff
    /\ NormalizerOff
    /\ SanitizerOff

\* ------------------------------------------------ UI thread: statements
\* Each statement group is written over the statements k still to run, its
\* own first; a method call is its first statement run on a fresh k.
\* PlayRejected without lines 127-129
PlayRejected_NoDataCheck == ~AUDIO_SUPPORT \/ playing

PlayRejected == ~AUDIO_SUPPORT \/ data = NoData \/ playing

\* play, lines 123-145: the three guards, has_finished, playback_position
play_enter_k(k) ==
    /\ IF PlayRejected
       THEN /\ ui' = <<Op("play_return", Head(k).t, Head(k).by)>> \o Drop(k, 3)
            /\ UNCHANGED <<has_finished, playback_position, signals>>
       ELSE /\ has_finished' = FALSE
            /\ playback_position' = StartSample(Head(k).t)
            /\ signals' = 0
            /\ ui' = Tail(k)
    /\ UNCHANGED <<rest, AUDIO_SUPPORT, data, playing, current_time, update_needed,
                   playback_thread, play_button, workers, was_playing>>

\* stop, line 294
stop_294_k(k) ==
    /\ playing' = FALSE
    /\ workers' = [w \in Threads |->
                     IF counting /\ Active(w) /\ workers[w].after_stop = -1
                     THEN [workers[w] EXCEPT !.after_stop = 0]
                     ELSE workers[w]]
    /\ ui' = Tail(k)
    /\ UNCHANGED <<rest, AUDIO_SUPPORT, data, current_time, playback_position,
                   has_finished, update_needed, playback_thread, play_button,
                   was_playing, signals>>

\* seek, lines 302-305: return when no data, else was_playing = self.playing
seek_302_k(k) ==
    /\ IF data = NoData
       THEN ui' = Drop(k, 6) /\ UNCHANGED was_playing
       ELSE ui' = Tail(k) /\ was_playing' = playing
    /\ UNCHANGED <<rest, AUDIO_SUPPORT, data, engine, play_button, workers, signals>>

\* update_ui, line 344
ui_344_k(k) ==
    /\ ui' = IF ~update_needed
             THEN <<Op("ui_345", 0, "update_ui")>> \o Drop(k, 4)
             ELSE Tail(k)
    /\ UNCHANGED <<rest, AUDIO_SUPPORT, data, engine, play_button, workers,
                   was_playing, signals>>

\* ----------------------------------------------------- UI thread: calls
\* A widget callback or the refresh timer enters a method; the UI thread is
\* single, so a method is entered only when the previous one has returned.
play(t) == ui = <<>> /\ CanStart /\ play_enter_k(PlayOps(t, "play"))

stop == ui = <<>> /\ stop_294_k(StopOps("stop"))

seek(t) == ui = <<>> /\ CanStart /\ seek_302_k(SeekOps(t, "seek"))

restart == ui = <<>> /\ CanStart /\ stop_294_k(RestartOps)

update_ui == ui = <<>> /\ ui_344_k(UpdateOps)

\* ------------------------------------- UI thread: inside a running method
\* self.play(...) called by seek (line 331) or restart (line 340)
play_enter == At("play_enter") /\ play_enter_k(ui)

\* play, lines 125, 129, 133: the message is printed, play returns
play_return ==
    /\ At("play_return")
    /\ ui' = Tail(ui)
    /\ UNCHANGED <<rest, AUDIO_SUPPORT, data, engine, play_button, workers,
                   was_playing, signals>>

\* play, line 148
play_148 ==
    /\ At("play_148")
    /\ current_time' = Head(ui).t
    /\ ui' = Tail(ui)
    /\ UNCHANGED <<rest, AUDIO_SUPPORT, data, playing, playback_position,
                   has_finished, update_needed, playback_thread, play_button,
                   workers, was_playing, signals>>

\* play, lines 149-164: playing = True, then the thread is started
play_149 ==
    /\ At("play_149")
    /\ playing' = TRUE
    /\ playback_thread' = NewThread
    /\ workers' = [w \in Threads |->
                     IF w = NewThread
                     THEN [pc |-> "start", start |-> StartSample(Head(ui).t),
                           i |-> 0, exit |-> "none", open |-> FALSE,
                           after_stop |-> -1]
                     ELSE IF workers[w].pc = "done"
                          THEN [workers[w] EXCEPT !.exit = "old"]
                          ELSE workers[w]]
    /\ ui' = Tail(ui)
    /\ UNCHANGED <<rest, AUDIO_SUPPORT, data, current_time, playback_position,
                   has_finished, update_needed, play_button, was_playing, signals>>

\* self.stop() called by seek (line 306)
stop_294 == At("stop_294") /\ stop_294_k(ui)

\* stop, line 298
stop_298 ==
    /\ At("stop_298")
    /\ has_finished' = FALSE
    /\ signals' = 0
    /\ ui' = Tail(ui)
    /\ UNCHANGED <<rest, AUDIO_SUPPORT, data, playing, current_time,
                   playback_position, update_needed, playback_thread,
                   play_button, workers, was_playing>>

\* self.seek(0) called by restart (line 339)
seek_302 == At("seek_302") /\ seek_302_k(ui)

\* seek, line 307
seek_307 ==
    /\ At("seek_307")
    /\ current_time' = Head(ui).t
    /\ ui' = Tail(ui)
    /\ UNCHANGED <<rest, AUDIO_SUPPORT, data, playing, playback_position,
                   has_finished, update_needed, playback_thread, play_button,
                   workers, was_playing, signals>>

\* seek, lines 330-331: if was_playing: self.play(self.current_time)
seek_330 ==
    /\ At("seek_330")
    /\ ui' = IF was_playing
             THEN PlayOps(current_time, Head(ui).by) \o Tail(ui)
             ELSE Tail(ui)
    /\ UNCHANGED <<rest, AUDIO_SUPPORT, data, engine, play_button, workers,
                   was_playing, signals>>

\* seek, line 333; was_playing goes out of scope
seek_333 ==
    /\ At("seek_333")
    /\ has_finished' = FALSE
    /\ signals' = 0
    /\ was_playing' = FALSE
    /\ ui' = Tail(ui)
    /\ UNCHANGED <<rest, AUDIO_SUPPORT, data, playing, current_time,
                   playback_position, update_needed, playback_thread,
                   play_button, workers>>

\* update_ui, lines 369-378: the play button label goes back to Play
ui_369 ==
    /\ At("ui_369")
    /\ signals' = IF has_finished /\ play_button
                  THEN (IF signals < 2 THEN signals + 1 ELSE 2)
                  ELSE signals
    /\ ui' = Tail(ui)
    /\ UNCHANGED <<rest, AUDIO_SUPPORT, data, engine, play_button, workers,
                   was_playing>>

\* update_ui, lines 347-378 raise, lines 382-384: the error is printed and
\* update_ui returns False; update_needed stays set
ui_382 ==
    /\ At("ui_369")
    /\ ui' = Drop(ui, 3)
    /\ UNCHANGED <<rest, AUDIO_SUPPORT, data, engine, play_button, workers,
                   was_playing, signals>>

\* ui_380 without the assignment of line 380
ui_380_NoClear ==
    /\ At("ui_380")
    /\ ui' = Tail(ui)
    /\ UNCHANGED <<rest, AUDIO_SUPPORT, data, engine, play_button, workers,
                   was_playing, signals>>

\* update_ui, line 380
ui_380 ==
    /\ At("ui_380")
    /\ update_needed' = FALSE
    /\ ui' = Tail(ui)
    /\ UNCHANGED <<rest, AUDIO_SUPPORT, data, playing, current_time,
                   playback_position, has_finished, playback_thread,
                   play_button, workers, was_playing, signals>>

\* update_ui, line 345: return False
ui_345 ==
    /\ At("ui_345")
    /\ ui' = Tail(ui)
    /\ UNCHANGED <<rest, AUDIO_SUPPORT, data, engine, play_button, workers,
                   was_playing, signals>>

\* update_ui, line 381: return True
ui_381 ==
    /\ At("ui_381")
    /\ ui' = Tail(ui)
    /\ UNCHANGED <<rest, AUDIO_SUPPORT, data, engine, play_button, workers,
                   was_playing, signals>>

\* ------------------------------------- _playback_worker_impl(start_sample)
Goto(w, rec) == workers' = [workers EXCEPT ![w] = rec]
\* the thread has returned; how it ended is remembered for the thread of the
\* latest play() only
\* Ended without the exit of the with block of line 198
Ended_StreamOpen(w, how) ==
    [pc |-> "done", start |-> 0, i |-> 0,
     exit |-> IF w = playback_thread THEN how ELSE "old",
     open |-> workers[w].open, after_stop |-> -1]

Ended(w, how) ==
    [pc |-> "done", start |-> 0, i |-> 0,
     exit |-> IF w = playback_thread THEN how ELSE "old", open |-> FALSE,
     after_stop |-> -1]

\* stream.write has returned for one more block
Written(n) == IF n = -1 THEN -1 ELSE 1

\* lines 172-180: remaining_data = self.data[start_sample:] is empty
w_empty(w) ==
    /\ workers[w].pc = "start"
    /\ data - workers[w].start = 0
    /\ playing' = FALSE
    /\ Goto(w, Ended(w, "nodata"))
    /\ UNCHANGED <<rest, AUDIO_SUPPORT, data, current_time, playback_position,
                   has_finished, update_needed, playback_thread, play_button,
                   ui, was_playing, signals>>

\* lines 172-201: the slice is not empty and sd.OutputStream(...) opens
w_open_ok(w) ==
    /\ workers[w].pc = "start"
    /\ data - workers[w].start # 0
    /\ Goto(w, [workers[w] EXCEPT !.pc = "loop", !.open = TRUE])
    /\ UNCHANGED <<rest, AUDIO_SUPPORT, data, engine, play_button, ui, was_playing, signals>>

\* w_open_fail without line 249
w_open_fail_KeepsPlaying(w) ==
    /\ workers[w].pc = "start"
    /\ data - workers[w].start # 0
    /\ Goto(w, Ended(w, "error"))
    /\ UNCHANGED <<rest, AUDIO_SUPPORT, data, engine, play_button, ui, was_playing, signals>>

\* line 198 raises, lines 245-251
w_open_fail(w) ==
    /\ workers[w].pc = "start"
    /\ data - workers[w].start # 0
    /\ playing' = FALSE
    /\ Goto(w, Ended(w, "error"))
    /\ UNCHANGED <<rest, AUDIO_SUPPORT, data, current_time, playback_position,
                   has_finished, update_needed, playback_thread, play_button,
                   ui, was_playing, signals>>

\* lines 204-207: next i of range(0, len(remaining_data), block_size), then
\* the test of self.playing; break continues at line 241
w_loop(w) ==
    /\ workers[w].pc = "loop"
    /\ IF workers[w].i >= data - workers[w].start
       THEN Goto(w, [workers[w] EXCEPT !.pc = "fin1", !.exit = "natural", !.i = 0,
                                      !.after_stop = -1])
       ELSE IF ~playing
            THEN Goto(w, [workers[w] EXCEPT !.pc = "fin1", !.exit = "break", !.i = 0,
                                           !.after_stop = -1])
            ELSE Goto(w, [workers[w] EXCEPT !.pc = "write"])
    /\ UNCHANGED <<rest, AUDIO_SUPPORT, data, engine, play_button, ui, was_playing, signals>>

\* lines 222-225: stream.write(block) returns, current_time is updated
w_write_ok(w) ==
    /\ workers[w].pc = "write"
    /\ current_time' = WorkerTime(workers[w].start, workers[w].i)
    /\ Goto(w, [workers[w] EXCEPT !.pc = "flag", !.after_stop = Written(@)])
    /\ UNCHANGED <<rest, AUDIO_SUPPORT, data, playing, playback_position,
                   has_finished, update_needed, playback_thread, play_button,
                   ui, was_playing, signals>>

\* line 222 raises, lines 237-239: on to the next block
w_write_fail(w) ==
    /\ workers[w].pc = "write"
    /\ Goto(w, [workers[w] EXCEPT !.pc = "loop", !.i = @ + block_size])
    /\ UNCHANGED <<rest, AUDIO_SUPPORT, data, engine, play_button, ui, was_playing, signals>>

\* lines 210-218 raise (or the handler of lines 237-238 does): the with block
\* closes the stream, lines 245-251
w_block_raise(w) ==
    /\ workers[w].pc = "write"
    /\ playing' = FALSE
    /\ Goto(w, Ended(w, "raised"))
    /\ UNCHANGED <<rest, AUDIO_SUPPORT, data, current_time, playback_position,
                   has_finished, update_needed, playback_thread, play_button,
                   ui, was_playing, signals>>

\* lines 228-236
w_flag(w) ==
    /\ workers[w].pc = "flag"
    /\ update_needed' = TRUE
    /\ Goto(w, [workers[w] EXCEPT !.pc = "loop", !.i = @ + block_size])
    /\ UNCHANGED <<rest, AUDIO_SUPPORT, data, playing, current_time,
                   playback_position, has_finished, playback_thread,
                   play_button, ui, was_playing, signals>>

\* line 243
w_fin1(w) ==
    /\ workers[w].pc = "fin1"
    /\ has_finished' = TRUE
    /\ signals' = IF workers[w].exit = "natural" THEN 0 ELSE signals
    /\ Goto(w, [workers[w] EXCEPT !.pc = "fin2"])
    /\ UNCHANGED <<rest, AUDIO_SUPPORT, data, playing, current_time,
                   playback_position, update_needed, playback_thread,
                   play_button, ui, was_playing>>

\* line 244, then the with block closes the stream and the thread ends
w_fin2(w) ==
    /\ workers[w].pc = "fin2"
    /\ update_needed' = TRUE
    /\ Goto(w, Ended(w, workers[w].exit))
    /\ UNCHANGED <<rest, AUDIO_SUPPORT, data, playing, current_time,
                   playback_position, has_finished, playback_thread,
                   play_button, ui, was_playing, signals>>

\* ---------------------------------------------------------- behaviours
Next ==
    \/ \E t \in Times : play(t)
    \/ stop
    \/ \E t \in Times : seek(t)
    \/ restart
    \/ update_ui
    \/ play_enter
    \/ play_return
    \/ play_148
    \/ play_149
    \/ stop_294
    \/ stop_298
    \/ seek_302
    \/ seek_307
    \/ seek_330
    \/ seek_333
    \/ ui_369
    \/ ui_382
    \/ ui_380
    \/ ui_345
    \/ ui_381
    \/ \E w \in Threads : w_empty(w)
    \/ \E w \in Threads : w_open_ok(w)
    \/ \E w \in Threads : w_open_fail(w)
    \/ \E w \in Threads : w_loop(w)
    \/ \E w \in Threads : w_write_ok(w)
    \/ \E w \in Threads : w_write_fail(w)
    \/ \E w \in Threads : w_block_raise(w)
    \/ \E w \in Threads : w_flag(w)
    \/ \E w \in Threads : w_fin1(w)
    \/ \E w \in Threads : w_fin2(w)

Spec == Init /\ [][Next]_vars

TypeOK ==
    /\ playing \in BOOLEAN
    /\ current_time \in 0..(MaxTime + TicksPerSample)
    /\ playback_position \in 0..NumSamples
    /\ signals \in 0..2

\* ------------------------------------------------------------- claims
\* the playback of the latest play() has run through all its blocks
LatestCompleted ==
    /\ playback_thread # 0
    /\ workers[playback_thread].pc = "done"
    /\ workers[playback_thread].exit = "natural"

\* one play() so far, and its worker was neither stopped nor failed
FirstPlaybackOnly ==
    /\ Started = {1}
    /\ workers[1].exit \in {"none", "natural"}

\* C1: at most one streaming worker is active (started and not yet out of
\* its block loop) in every reachable state.
C1_AtMostOneActive == Cardinality(ActiveSet) <= 1

\* C2: seek(T) called while playing: the play() it issues starts a worker
\* at sample floor(T * samplerate), and when seek returns current_time = T
\* and the engine is playing (T inside the buffer; stated for the runs in
\* which no stream failed: every thread started is still running).
C2_SeekRoundTrip ==
    [][/\ (/\ play_149
           /\ Head(ui).by = "seek"
           /\ ui[2].t < duration)
          => workers'[playback_thread'].start = (ui[2].t * samplerate) \div TicksPerSecond
       /\ (/\ seek_333
           /\ Head(ui).by = "seek"
           /\ was_playing
           /\ Head(ui).t < duration
           /\ LiveSet = Started)
          => (current_time' = Head(ui).t /\ playing')]_vars

\* C3: after a playback has run to natural completion, once update_ui() has
\* delivered the reset signal and returned, finished is False.
C3_FinishedCleared ==
    (FirstPlaybackOnly /\ LatestCompleted /\ ui = <<>> /\ signals >= 1)
    => ~has_finished

\* C4: for a playback that runs to natural completion the reset signal is
\* delivered exactly once: never twice, and never lost (finished set, no
\* update pending, nothing running that would set it again, no signal yet).
C4_SignalLost ==
    /\ LatestCompleted
    /\ has_finished
    /\ ~update_needed
    /\ ui = <<>>
    /\ signals = 0

C4_SignalExactlyOnce == FirstPlaybackOnly => (signals <= 1 /\ ~C4_SignalLost)

\* C5: when the latest playback has exhausted its blocks the engine has left
\* the Playing state, and a play() call is accepted.
C5_CompletionLeavesPlaying == LatestCompleted => (~playing /\ ~PlayRejected)

\* C6: a play() call made while playing is set starts no thread and changes
\* no engine field, and exactly one streaming thread is live when it returns.
C6_ReentrantPlay ==
    [][\A t \in Times :
         (play(t) /\ playing)
         => (/\ engine' = engine
             /\ workers' = workers
             /\ ui' = <<Op("play_return", t, "play")>>
             /\ Cardinality(LiveSet') = 1)]_vars

\* C7: play(start_time) with floor(start_time * samplerate) >= len(data) on a
\* loaded, not playing engine is accepted: playback_position becomes 0, the
\* engine enters Playing and the worker it starts streams from sample 0.
C7_PlayPastEnd ==
    [][/\ \A t \in Times :
            (/\ play(t)
             /\ ~PlayRejected
             /\ data > 0
             /\ (t * samplerate) \div TicksPerSecond >= data)
            => (playback_position' = 0 /\ ui' # <<>> /\ Head(ui').op = "play_148")
       /\ (/\ play_149
           /\ data > 0
           /\ (Head(ui).t * samplerate) \div TicksPerSecond >= data)
          => (/\ playing'
              /\ playback_position' = 0
              /\ workers'[playback_thread'].pc = "start"
              /\ workers'[playback_thread'].start = 0
              /\ workers'[playback_thread'].i = 0)]_vars

\* play(MaxTime) was accepted and its worker is writing the block at sample 0
C7_Witness ==
    /\ data > 0
    /\ playing
    /\ current_time = MaxTime
    /\ playback_position = 0
    /\ playback_thread # 0
    /\ workers[playback_thread].pc = "write"
    /\ workers[playback_thread].start = 0
    /\ workers[playback_thread].i = 0

\* C8: restart() on a non-empty buffer returns with the engine playing,
\* current_time = 0, playback_position = 0, finished = False and a worker
\* started at sample 0.
C8_RestartFromZero ==
    [][(play_149 /\ Head(ui).by = "restart" /\ data > 0)
       => (/\ playing'
           /\ current_time' = 0
           /\ playback_position' = 0
           /\ ~has_finished'
           /\ workers'[playback_thread'].start = 0)]_vars

\* C9: with no samples loaded nothing any call does changes the engine, no
\* thread is started and update_ui() never gets past line 345 (return False).
C9_NoDataNoOps ==
    data = NoData
    => (/\ ~playing
        /\ current_time = 0
        /\ playback_position = 0
        /\ ~has_finished
        /\ ~update_needed
        /\ playback_thread = 0
        /\ Started = {}
        /\ ~At("play_148")
        /\ ~At("play_149")
        /\ ~At("seek_307")
        /\ ~At("ui_369")
        /\ ~At("ui_380")
        /\ ~At("ui_381"))

\* restart() has run its stop() and its seek(0), and its play(0) has been
\* turned down at line 127 although audio support is there
C9_Witness ==
    /\ data = NoData
    /\ AUDIO_SUPPORT
    /\ At("play_return")
    /\ Head(ui).by = "restart"

\* C10: a worker whose stream fails to open ends without raising, with
\* playing = False; while it is the latest worker the engine stays
\* non-playing, and a play() call is then accepted and starts a new worker.
C10_LatestFailed ==
    /\ playback_thread # 0
    /\ workers[playback_thread].exit = "error"

C10_OpenFailureRetry ==
    [][/\ \A w \in Threads :
            w_open_fail(w)
            => (/\ ~playing'
                /\ workers'[w].pc = "done"
                /\ ~workers'[w].open)
       /\ C10_LatestFailed' => ~playing'
       /\ \A t \in Times :
            (play(t) /\ C10_LatestFailed)
            => (ui' # <<>> /\ Head(ui').op = "play_148")
       /\ (play_149 /\ C10_LatestFailed)
          => (playing' /\ workers'[playback_thread'].pc = "start")]_vars

\* the stream of the latest worker failed to open and the play() that
\* follows has passed its guards
C10_Witness ==
    /\ C10_LatestFailed
    /\ ~playing
    /\ At("play_149")
    /\ Head(ui).by = "play"

C20_FinishedOnlyNatural ==
    [][\A w \in Threads : w_fin1(w) => workers[w].exit = "natural"]_vars

\* Spec with the blocks written after a stop() counted
StopInit ==
    /\ AUDIO_SUPPORT \in BOOLEAN
    /\ data \in {NoData, 0, NumSamples}
    /\ (data # NoData) => AUDIO_SUPPORT
    /\ playing = FALSE
    /\ current_time = 0
    /\ playback_position = 0
    /\ has_finished = FALSE
    /\ update_needed = FALSE
    /\ playback_thread = 0
    /\ play_button = TRUE
    /\ workers = [w \in Threads |-> NoWorker]
    /\ ui = <<>>
    /\ was_playing = FALSE
    /\ signals = 0
    /\ counting = TRUE
    /\ LoaderOff
    /\ NormalizerOff
    /\ SanitizerOff

StopSpec == StopInit /\ [][Next]_vars

\* C21: after stop() has run while a worker was in its block loop, that
\* worker writes at most one further block to the stream, whatever follows
\* the stop(): no stream.write of the worker returns when one has returned
\* since the stop().
C21_OneMoreBlock ==
    [][\A w \in Threads : w_write_ok(w) => workers[w].after_stop # 1]_vars

\* the UI thread runs an assignment to the field
UiWritesPlaying == stop \/ restart \/ stop_294 \/ play_149
UiWritesCurrentTime == play_148 \/ seek_307
UiWritesFinished ==
    \/ ((play_enter \/ \E t \in Times : play(t)) /\ ~PlayRejected)
    \/ stop_298
    \/ seek_333
UiWritesUpdateNeeded == ui_380

\* a worker has run an assignment to the field: one has ended by line 175,
\* 249 or 256, one has just run line 225, one has just run line 243,
\* update_needed is True (no statement of the UI thread sets it True)
WorkerWrotePlaying ==
    \E w \in Threads : workers[w].exit \in {"nodata", "error", "raised"}
WorkerWroteCurrentTime == \E w \in Threads : workers[w].pc = "flag"
WorkerWroteFinished == \E w \in Threads : workers[w].pc = "fin2"
WorkerWroteUpdateNeeded == update_needed

\* C22: each of playing, current_time, has_finished and update_needed is
\* written by one of the two contexts only: the UI thread runs no assignment
\* to a field that a worker has assigned.
C22_SingleWriter ==
    [][/\ UiWritesPlaying => ~WorkerWrotePlaying
       /\ UiWritesCurrentTime => ~WorkerWroteCurrentTime
       /\ UiWritesFinished => ~WorkerWroteFinished
       /\ UiWritesUpdateNeeded => ~WorkerWroteUpdateNeeded]_vars

\* C23: a block whose stream.write raises does not end the playback: the
\* worker goes on to the next block of the same stream and playing is left
\* as it is; and current_time and update_needed are set after this block as
\* after every other.
C23_BlockFailure ==
    [][\A w \in Threads :
         w_write_fail(w)
         => (/\ workers'[w].pc = "loop"
             /\ workers'[w].i = workers[w].i + block_size
             /\ workers'[w].open
             /\ playing' = playing
             /\ current_time' = WorkerTime(workers[w].start, workers[w].i)
             /\ update_needed')]_vars

\* a statement of seek() is run, in a call that found playing False at line 305
SeekStepNotPlaying ==
    /\ ~was_playing
    /\ \/ (stop_294 \/ stop_298) /\ Head(ui).by = "seek"
       \/ seek_307
       \/ seek_330
       \/ seek_333

\* C25: seek(T) on a loaded engine that is not playing starts no worker and
\* leaves playing False and playback_position as it is, calls no play(), and
\* returns with current_time = T and has_finished False.
C25_SeekNotPlaying ==
    [][/\ \A t \in Times :
            (seek(t) /\ data # NoData /\ ~playing)
            => (~was_playing' /\ engine' = engine /\ workers' = workers)
       /\ SeekStepNotPlaying
          => (/\ ~playing'
              /\ playback_position' = playback_position
              /\ playback_thread' = playback_thread
              /\ Started' = Started)
       /\ (seek_330 /\ ~was_playing) => Head(ui').op = "seek_333"
       /\ (seek_333 /\ ~was_playing)
          => (current_time' = Head(ui).t /\ ~has_finished')]_vars

\* C24: the stream a worker opened is closed before the worker exits, on
\* every path: a stream is open exactly while its worker is inside the with
\* block of line 198, and no worker that has returned has a stream open.
C24_StreamClosed ==
    \A w \in Threads :
        /\ workers[w].open <=> workers[w].pc \in {"loop", "write", "flag", "fin1", "fin2"}
        /\ workers[w].pc = "done" => ~workers[w].open

\* of two workers the first was stopped and left its loop by the break, the
\* second ended by an exception raised inside its loop
C24_Witness ==
    /\ workers[1].pc = "done"
    /\ workers[1].exit = "old"
    /\ playback_thread = 2
    /\ workers[2].pc = "done"
    /\ workers[2].exit = "raised"
    /\ ~workers[1].open
    /\ ~workers[2].open

\* C26: whenever has_finished is True no worker is still in its block loop.
C26_FinishedMeansIdle == has_finished => ActiveSet = {}

\* C27: a worker that is not the one started by the latest play() does not
\* clear playing after that play() has set it: its error paths (lines 175,
\* 249, 256) leave a True playing flag True.
C27_OldWorkerKeepsPlaying ==
    [][\A w \in Threads :
         (/\ w_empty(w) \/ w_open_fail(w) \/ w_block_raise(w)
          /\ w # playback_thread
          /\ playing)
         => playing']_vars

\* C28: on a loaded engine 0 <= current_time <= duration in every state.
C28_TimeInRange == data # NoData => (0 <= current_time /\ current_time <= duration)

\* -------------------------------------------- the host's refresh timer
\* plotting_helpers.update_playback_ui, the FuncAnimation callback: it calls
\* update_ui() when audio_player.playing is set, and nothing else does
update_playback_ui == playing /\ update_ui

\* the UI thread goes on with the method it is in
UiStep ==
    \/ play_enter
    \/ play_return
    \/ play_148
    \/ play_149
    \/ stop_294
    \/ stop_298
    \/ seek_302
    \/ seek_307
    \/ seek_330
    \/ seek_333
    \/ ui_369
    \/ ui_382
    \/ ui_380
    \/ ui_345
    \/ ui_381

\* the thread w goes on
WorkerStep(w) ==
    \/ w_empty(w)
    \/ w_open_ok(w)
    \/ w_open_fail(w)
    \/ w_loop(w)
    \/ w_write_ok(w)
    \/ w_write_fail(w)
    \/ w_block_raise(w)
    \/ w_flag(w)
    \/ w_fin1(w)
    \/ w_fin2(w)

TimerNext ==
    \/ \E t \in Times : play(t)
    \/ stop
    \/ \E t \in Times : seek(t)
    \/ restart
    \/ update_playback_ui
    \/ UiStep
    \/ \E w \in Threads : WorkerStep(w)

\* The timer keeps firing, a method that was entered runs to its return and
\* every thread is scheduled; the user may stop acting at any time.
TimerSpec ==
    /\ Init
    /\ [][TimerNext]_vars
    /\ WF_vars(update_playback_ui)
    /\ WF_vars(UiStep)
    /\ \A w \in Threads : WF_vars(WorkerStep(w))

\* C29: with the refresh timer every update_needed = True is consumed in the
\* end (cleared by line 380) with no further call by the user; stated for
\* the behaviours with a single play(), in which no bound on the number of
\* threads comes into play.
C29_PendingConsumed ==
    [](Started \subseteq {1}) => (update_needed ~> ~update_needed)

\* ================================================ AudioPlayer.load_audio
\* the bytes a file may hold, and every file content of up to MaxBytes bytes
Bytes == {0, 1, 255}
ByteSeqs == UNION {[1..k -> Bytes] : k \in 0..MaxBytes}
Rates == 1..MaxRate
Names == {"a.pcm", "a.wav"}

\* self.audio_file and the file it names: no path, a path to nothing, a file
\* that open() cannot read, a file with its bytes
Files ==
    {NoFile}
    \cup {[name |-> n, exists |-> e, readable |-> FALSE, bytes |-> <<>>] :
            n \in Names, e \in BOOLEAN}
    \cup {[name |-> n, exists |-> TRUE, readable |-> TRUE, bytes |-> b] :
            n \in Names, b \in ByteSeqs}

\* what sf.read returns for a file it can decode: the frames and the file's
\* own rate
Decoded ==
    {[raises |-> FALSE, data |-> d, samplerate |-> r] :
        d \in {<<>>, <<0>>, <<1, -1>>}, r \in Rates}

\* frombuffer_int16 reading every pair of bytes as an unsigned number
frombuffer_uint16(b) ==
    [k \in 1..(Len(b) \div 2) |-> b[2 * k] * 256 + b[2 * k - 1]]

\* np.frombuffer(pcm_data, dtype=np.int16): little-endian two's complement
frombuffer_int16(b) ==
    [k \in 1..(Len(b) \div 2) |->
        IF b[2 * k] * 256 + b[2 * k - 1] >= 32768
        THEN b[2 * k] * 256 + b[2 * k - 1] - 65536
        ELSE b[2 * k] * 256 + b[2 * k - 1]]

\* np.frombuffer raises ValueError: the buffer is no whole number of items
frombuffer_raises(b) == Len(b) % 2 # 0

\* line 48
LoadRefused == ~AUDIO_SUPPORT \/ audio_file.name = "" \/ ~audio_file.exists

\* lines 53-55: ext == '.pcm'
IsPcm == audio_file.name = "a.pcm"

\* open(self.audio_file, 'rb') or np.frombuffer raises
RawRaises == ~audio_file.readable \/ frombuffer_raises(audio_file.bytes)

\* lines 51-94: the branch taken raises
PrimaryRaises == IF IsPcm THEN RawRaises ELSE sf_read.raises

LoadInit ==
    /\ AUDIO_SUPPORT \in BOOLEAN
    /\ PlayerNew
    /\ audio_file \in Files
    /\ sf_read \in IF audio_file.readable /\ ~IsPcm
                   THEN Decoded \cup {SfRaises}
                   ELSE {SfRaises}
    /\ PCM_SAMPLE_RATE \in Rates
    /\ self_data = None
    /\ self_samplerate = 0
    /\ self_duration = Q(0, 1)
    /\ load_pc = "call"
    /\ success = "none"
    /\ NormalizerOff
    /\ SanitizerOff

\* lines 48-49: return False
load_48 ==
    /\ load_pc = "call"
    /\ LoadRefused
    /\ load_pc' = "done"
    /\ success' = "False"
    /\ UNCHANGED <<player, audio_file, sf_read, PCM_SAMPLE_RATE, self_data,
                   self_samplerate, self_duration, normalizer, sanitizer>>

\* lines 55-88 and 94: the .pcm branch
load_pcm ==
    /\ load_pc = "call"
    /\ ~LoadRefused
    /\ IsPcm
    /\ ~PrimaryRaises
    /\ self_data' = Array(frombuffer_int16(audio_file.bytes))
    /\ self_samplerate' = PCM_SAMPLE_RATE
    /\ self_duration' = Q(Len(frombuffer_int16(audio_file.bytes)), PCM_SAMPLE_RATE * 1)
    /\ load_pc' = "done"
    /\ success' = "True"
    /\ UNCHANGED <<player, audio_file, sf_read, PCM_SAMPLE_RATE,
                   normalizer, sanitizer>>

\* lines 89-94: any other extension, sf.read
load_sf ==
    /\ load_pc = "call"
    /\ ~LoadRefused
    /\ ~IsPcm
    /\ ~PrimaryRaises
    /\ self_data' = Array(sf_read.data)
    /\ self_samplerate' = sf_read.samplerate
    /\ self_duration' = Q(Len(sf_read.data), sf_read.samplerate)
    /\ load_pc' = "done"
    /\ success' = "True"
    /\ UNCHANGED <<player, audio_file, sf_read, PCM_SAMPLE_RATE,
                   normalizer, sanitizer>>

\* load_95 giving up at once
load_95_NoRetry ==
    /\ load_pc = "call"
    /\ ~LoadRefused
    /\ PrimaryRaises
    /\ load_pc' = "done"
    /\ success' = "False"
    /\ UNCHANGED <<player, audio_file, sf_read, PCM_SAMPLE_RATE, self_data,
                   self_samplerate, self_duration, normalizer, sanitizer>>

\* lines 95-100: the branch raised before it set a field; on to the fallback
load_95 ==
    /\ load_pc = "call"
    /\ ~LoadRefused
    /\ PrimaryRaises
    /\ load_pc' = "fallback"
    /\ UNCHANGED <<player, audio_file, sf_read, PCM_SAMPLE_RATE, self_data,
                   self_samplerate, self_duration, success, normalizer,
                   sanitizer>>

\* lines 101-112: the whole file as raw 16-bit PCM
load_fallback ==
    /\ load_pc = "fallback"
    /\ ~RawRaises
    /\ self_data' = Array(frombuffer_int16(audio_file.bytes))
    /\ self_samplerate' = PCM_SAMPLE_RATE
    /\ self_duration' = Q(Len(frombuffer_int16(audio_file.bytes)), PCM_SAMPLE_RATE)
    /\ load_pc' = "done"
    /\ success' = "True"
    /\ UNCHANGED <<player, audio_file, sf_read, PCM_SAMPLE_RATE,
                   normalizer, sanitizer>>

\* lines 113-115: the fallback raised too, return False
load_113 ==
    /\ load_pc = "fallback"
    /\ RawRaises
    /\ load_pc' = "done"
    /\ success' = "False"
    /\ UNCHANGED <<player, audio_file, sf_read, PCM_SAMPLE_RATE, self_data,
                   self_samplerate, self_duration, normalizer, sanitizer>>

LoadNext ==
    \/ load_48
    \/ load_pcm
    \/ load_sf
    \/ load_95
    \/ load_fallback
    \/ load_113

LoadSpec == LoadInit /\ [][LoadNext]_vars

\* ------------------------------------------------------ claims: load_audio
\* C12: load_audio always returns (True or False, no exception leaves it);
\* refused at line 48 it returns False at once with no field touched; when
\* the branch taken raises it decodes the file as raw 16-bit PCM at
\* PCM_SAMPLE_RATE; and whenever it returned False, data is None and
\* duration 0.
C12_LoadNeverRaises ==
    /\ load_pc \in {"call", "fallback", "done"}
    /\ load_pc # "done" => ENABLED LoadNext
    /\ LoadRefused => load_pc # "fallback"
    /\ load_pc = "done" =>
         /\ success \in {"True", "False"}
         /\ LoadRefused =>
              /\ success = "False"
              /\ self_data = None
              /\ self_samplerate = 0
              /\ self_duration = Q(0, 1)
         /\ (~LoadRefused /\ PrimaryRaises /\ ~RawRaises) =>
              /\ success = "True"
              /\ self_data = Array(frombuffer_int16(audio_file.bytes))
              /\ self_samplerate = PCM_SAMPLE_RATE
              /\ self_duration = Q(Len(audio_file.bytes) \div 2, PCM_SAMPLE_RATE)
         /\ success = "False" => (self_data = None /\ self_duration.n = 0)

\* sf.read raised on a readable file of four bytes and the fallback loaded
\* its two samples
C12_Witness ==
    /\ load_pc = "done"
    /\ ~LoadRefused
    /\ ~IsPcm
    /\ sf_read.raises
    /\ Len(audio_file.bytes) = 4
    /\ success = "True"
    /\ Len(self_data.array) = 2

\* the 16-bit samples whose bytes are in Bytes, the files of up to MaxBytes
\* bytes that hold such samples, and the bytes a writer puts for them
\* (little-endian two's complement)
Samples == {0, 1, 255, -256, -1}
SampleSeqs == UNION {[1..k -> Samples] : k \in 0..(MaxBytes \div 2)}
tobytes_int16(x) ==
    [k \in 1..(2 * Len(x)) |->
        IF k % 2 = 1
        THEN x[(k + 1) \div 2] % 256
        ELSE (x[k \div 2] % 65536) \div 256]

\* C13: a .pcm file that holds N mono 16-bit samples (2N bytes), loaded as
\* int16 at rate PCM_SAMPLE_RATE, gives a buffer of exactly these N samples
\* and duration N / PCM_SAMPLE_RATE.
C13_PcmRoundTrip ==
    \A x \in SampleSeqs :
        (/\ load_pc = "done"
         /\ AUDIO_SUPPORT
         /\ audio_file = [name |-> "a.pcm", exists |-> TRUE,
                          readable |-> TRUE, bytes |-> tobytes_int16(x)])
        => (/\ success = "True"
            /\ self_data = Array(x)
            /\ self_samplerate = PCM_SAMPLE_RATE
            /\ self_duration = Q(Len(x), PCM_SAMPLE_RATE))

\* the samples -1 and 255 were written, the file was loaded at rate 2
C13_Witness ==
    /\ load_pc = "done"
    /\ AUDIO_SUPPORT
    /\ IsPcm
    /\ audio_file.bytes = tobytes_int16(<<-1, 255>>)
    /\ PCM_SAMPLE_RATE = 2
    /\ self_data = Array(<<-1, 255>>)
    /\ self_duration = Q(2, 2)

\* ================= plot_utils.detect_and_normalize_amplitude_values
\* Floats are computed as exact rationals; a division by zero leaves d = 0,
\* which stands for the ZeroDivisionError Python raises there.
QLe(a, b) == a.n * b.d <= b.n * a.d
QEq(a, b) == a.n * b.d = b.n * a.d
RECURSIVE GCD(_, _)
GCD(x, y) == IF y = 0 THEN x ELSE GCD(y, x % y)
\* n/d in lowest terms
Lowest(n, d) ==
    IF d = 0 THEN Q(n, 0)
    ELSE Q(n \div GCD(IF n < 0 THEN 0 - n ELSE n, d),
           d \div GCD(IF n < 0 THEN 0 - n ELSE n, d))
QAdd(a, b) == Lowest(a.n * b.d + b.n * a.d, a.d * b.d)
QSub(a, b) == Lowest(a.n * b.d - b.n * a.d, a.d * b.d)
QMul(a, b) == Lowest(a.n * b.n, a.d * b.d)
QDiv(a, b) == Lowest(a.n * b.d, a.d * b.n)

\* amplitudes in dB, negative ones too; every peak list of up to MaxPeaks
Amps == (0 - 1)..MaxAmp
PeakLists == UNION {[1..k -> Amps] : k \in 0..MaxPeaks}

\* min(amplitudes), max(amplitudes)
min_amp(amplitudes) ==
    CHOOSE m \in {amplitudes[i] : i \in DOMAIN amplitudes} :
        \A i \in DOMAIN amplitudes : m <= amplitudes[i]
max_amp(amplitudes) ==
    CHOOSE m \in {amplitudes[i] : i \in DOMAIN amplitudes} :
        \A i \in DOMAIN amplitudes : m >= amplitudes[i]

\* line 53
linear_normalized(amplitudes) ==
    [i \in DOMAIN amplitudes |->
        QDiv(Q(amplitudes[i] - min_amp(amplitudes), 1),
             Q(max_amp(amplitudes) - min_amp(amplitudes), 1))]

\* sorted(...), line 58
RECURSIVE Insert(_, _)
Insert(x, t) ==
    IF t = <<>> THEN <<x>>
    ELSE IF QLe(x, Head(t)) THEN <<x>> \o t
    ELSE <<Head(t)>> \o Insert(x, Tail(t))
RECURSIVE sorted(_)
sorted(t) == IF t = <<>> THEN <<>> ELSE Insert(Head(t), sorted(Tail(t)))

\* lines 59-66: q2 = sorted_linear[n//2] when n >= 4, else 0.5
q2(amplitudes) ==
    IF Len(amplitudes) >= 4
    THEN sorted(linear_normalized(amplitudes))[Len(amplitudes) \div 2 + 1]
    ELSE Q(1, 2)

\* enhanced without the 0.5 + of line 76
enhanced_NoOffset(norm_val, q) ==
    IF QLe(norm_val, q)
    THEN QMul(QMul(QDiv(norm_val, q), Q(1, 2)), Q(100, 1))
    ELSE QMul(QMul(QDiv(QSub(norm_val, q), QSub(Q(1, 1), q)), Q(1, 2)),
              Q(100, 1))

\* lines 71-78: enhanced_val * 100.0
enhanced(norm_val, q) ==
    IF QLe(norm_val, q)
    THEN QMul(QMul(QDiv(norm_val, q), Q(1, 2)), Q(100, 1))
    ELSE QMul(QAdd(Q(1, 2),
                   QMul(QDiv(QSub(norm_val, q), QSub(Q(1, 1), q)), Q(1, 2))),
              Q(100, 1))

\* all_same on the 0..1 scale
all_same_Unscaled(amplitudes) == [i \in DOMAIN amplitudes |-> Q(1, 2)]

\* lines 83-85: [50.0] * len(amplitudes)
all_same(amplitudes) == [i \in DOMAIN amplitudes |-> Q(50, 1)]

\* lines 51-86
normalized_amplitudes(amplitudes) ==
    IF max_amp(amplitudes) > min_amp(amplitudes)
    THEN [i \in DOMAIN amplitudes |->
            enhanced(linear_normalized(amplitudes)[i], q2(amplitudes))]
    ELSE all_same(amplitudes)

\* line 90
sizes(norm) ==
    [i \in DOMAIN norm |->
        QAdd(Q(8, 1), QMul(Q(42, 1), QDiv(norm[i], Q(100, 1))))]

detect_and_normalize_amplitude_values(peaks) ==
    IF peaks = <<>>
    THEN [pc |-> "returned", amplitudes |-> <<>>,
          original_amplitudes |-> <<>>, sizes |-> <<>>,
          amplitude_range |-> <<0, 1>>]
    ELSE IF \E i \in DOMAIN peaks : normalized_amplitudes(peaks)[i].d = 0
    THEN [pc |-> "ZeroDivisionError", amplitudes |-> <<>>,
          original_amplitudes |-> <<>>, sizes |-> <<>>,
          amplitude_range |-> <<>>]
    ELSE [pc |-> "returned", amplitudes |-> normalized_amplitudes(peaks),
          original_amplitudes |-> peaks,
          sizes |-> sizes(normalized_amplitudes(peaks)),
          amplitude_range |-> <<min_amp(peaks), max_amp(peaks)>>]

NormInit ==
    /\ PlayerOff
    /\ LoaderOff
    /\ SanitizerOff
    /\ peaks_data \in PeakLists
    /\ normalized = NotNormalized

\* the call: it returns its result or raises
normalize ==
    /\ normalized.pc = "none"
    /\ normalized' = detect_and_normalize_amplitude_values(peaks_data)
    /\ UNCHANGED <<player, loader, sanitizer, peaks_data>>

NormNext == normalize

NormSpec == NormInit /\ [][NormNext]_vars

\* ---------------- claims: detect_and_normalize_amplitude_values
\* C14: for every non-empty peak list the function returns a result in
\* which every normalized amplitude is in [0,100] and every size in [8,50].
C14_Bounds ==
    (normalized.pc # "none" /\ peaks_data # <<>>)
    => (/\ normalized.pc = "returned"
        /\ \A i \in DOMAIN normalized.amplitudes :
             /\ QLe(Q(0, 1), normalized.amplitudes[i])
             /\ QLe(normalized.amplitudes[i], Q(100, 1))
             /\ QLe(Q(8, 1), normalized.sizes[i])
             /\ QLe(normalized.sizes[i], Q(50, 1)))

\* C15: in the result for a peak list with max_amp > min_amp, every peak of
\* amplitude min_amp has the normalized value 0 and every peak of amplitude
\* max_amp the normalized value 100.
C15_MinMax ==
    (/\ normalized.pc = "returned"
     /\ peaks_data # <<>>
     /\ max_amp(peaks_data) > min_amp(peaks_data))
    => \A i \in DOMAIN peaks_data :
         /\ peaks_data[i] = min_amp(peaks_data)
            => QEq(normalized.amplitudes[i], Q(0, 1))
         /\ peaks_data[i] = max_amp(peaks_data)
            => QEq(normalized.amplitudes[i], Q(100, 1))

\* C16: in every result, a peak of greater raw amplitude has a normalized
\* value, and a size, that is not smaller.
C16_Monotone ==
    normalized.pc = "returned"
    => \A i, j \in DOMAIN peaks_data :
         peaks_data[i] > peaks_data[j]
         => (/\ QLe(normalized.amplitudes[j], normalized.amplitudes[i])
             /\ QLe(normalized.sizes[j], normalized.sizes[i]))

\* a result for four or more peaks with amplitudes below, at and above the
\* median
C16_Witness ==
    /\ normalized.pc = "returned"
    /\ Len(peaks_data) >= 4
    /\ \E i, j, k \in DOMAIN peaks_data :
         /\ peaks_data[i] < peaks_data[j]
         /\ peaks_data[j] < peaks_data[k]
         /\ QEq(normalized.amplitudes[j], Q(50, 1))
         /\ ~QLe(normalized.amplitudes[j], normalized.amplitudes[i])
         /\ ~QLe(normalized.amplitudes[k], normalized.amplitudes[j])

\* C17: for a non-empty peak list whose amplitudes are all equal, every
\* normalized value is exactly 50, every size exactly 29, and
\* amplitude_range is (that value, that value).
C17_AllEqual ==
    (/\ normalized.pc # "none"
     /\ peaks_data # <<>>
     /\ \A i \in DOMAIN peaks_data : peaks_data[i] = peaks_data[1])
    => (/\ normalized.pc = "returned"
        /\ Len(normalized.amplitudes) = Len(peaks_data)
        /\ Len(normalized.sizes) = Len(peaks_data)
        /\ \A i \in DOMAIN peaks_data :
             /\ normalized.amplitudes[i] = Q(50, 1)
             /\ QEq(normalized.sizes[i], Q(29, 1))
        /\ normalized.amplitude_range = <<peaks_data[1], peaks_data[1]>>)

\* the result for three peaks of amplitude -1
C17_Witness ==
    /\ peaks_data = <<0 - 1, 0 - 1, 0 - 1>>
    /\ normalized.pc = "returned"
    /\ normalized.amplitudes = <<Q(50, 1), Q(50, 1), Q(50, 1)>>

\* C30: for every peak list with max_amp > min_amp the median anchor q2
\* lies strictly between 0 and 1, so that neither division of lines 73 and
\* 76 has a zero divisor, and the function returns a result.
C30_MedianInside ==
    (/\ normalized.pc # "none"
     /\ peaks_data # <<>>
     /\ max_amp(peaks_data) > min_amp(peaks_data))
    => (/\ ~QLe(q2(peaks_data), Q(0, 1))
        /\ ~QLe(Q(1, 1), q2(peaks_data))
        /\ normalized.pc = "returned")

\* ========================== plot_utils.clean_filename_for_display
\* A string is the sequence of its code points.  The characters tried:
\* a [ ? ] space, no-break space (U+00A0), fullwidth comma (U+FF0C), the
\* emoji U+1F525 and the snowman U+2603.
Chars == {97, 91, 63, 93, 32, 160, 65292, 128293, 9731}
Filenames == UNION {[1..k -> Chars] : k \in 0..MaxLen}

\* '[?]' and "audio_file"
placeholder == <<91, 63, 93>>
default_name == <<97, 117, 100, 105, 111, 95, 102, 105, 108, 101>>

\* lines 128-144, the entry of U+1F525: '[fire]'
emoji_replacements(c) ==
    IF c = 128293 THEN <<91, 102, 105, 114, 101, 93>> ELSE <<c>>

\* lines 147-148
RECURSIVE replace_emoji(_)
replace_emoji(t) ==
    IF t = <<>> THEN <<>>
    ELSE emoji_replacements(Head(t)) \o replace_emoji(Tail(t))

\* is_safe_char with the upper ends of the ranges left out
is_safe_char_NoUpper(code) == code >= 32

\* lines 152-165
is_safe_char(code) ==
    \/ (32 <= code /\ code <= 126)
    \/ (160 <= code /\ code <= 255)
    \/ (19968 <= code /\ code <= 40959)
    \/ (12288 <= code /\ code <= 12351)
    \/ code \in {12290, 65292, 12289, 65307, 65306, 65311, 65281, 34,
                 65288, 65289, 12304, 12305, 12298, 12299}

\* lines 177-178: past the run of unsafe characters
RECURSIVE skip_unsafe(_)
skip_unsafe(t) ==
    IF t # <<>> /\ ~is_safe_char(Head(t)) THEN skip_unsafe(Tail(t)) ELSE t

\* lines 168-185: one '[?]' for every run of unsafe characters
RECURSIVE cleaned_chars(_)
cleaned_chars(t) ==
    IF t = <<>> THEN <<>>
    ELSE IF is_safe_char(Head(t)) THEN <<Head(t)>> \o cleaned_chars(Tail(t))
    ELSE placeholder \o cleaned_chars(skip_unsafe(t))

\* \]+ : past the run of ']'
RECURSIVE skip_brackets(_)
skip_brackets(t) ==
    IF t # <<>> /\ Head(t) = 93 THEN skip_brackets(Tail(t)) ELSE t

\* line 188: re.sub(r'\[?\?\]+', '[?]', result), leftmost and greedy
RECURSIVE merge_placeholders(_)
merge_placeholders(t) ==
    IF t = <<>> THEN <<>>
    ELSE IF Len(t) >= 3 /\ t[1] = 91 /\ t[2] = 63 /\ t[3] = 93
    THEN placeholder \o merge_placeholders(skip_brackets(SubSeq(t, 3, Len(t))))
    ELSE IF Len(t) >= 2 /\ t[1] = 63 /\ t[2] = 93
    THEN placeholder \o merge_placeholders(skip_brackets(SubSeq(t, 2, Len(t))))
    ELSE <<Head(t)>> \o merge_placeholders(Tail(t))

\* \s of re and str.isspace
is_space(code) ==
    \/ code \in {9, 10, 11, 12, 13, 28, 29, 30, 31, 32, 133, 160, 5760}
    \/ (8192 <= code /\ code <= 8202)
    \/ code \in {8232, 8233, 8239, 8287, 12288}

RECURSIVE skip_spaces(_)
skip_spaces(t) ==
    IF t # <<>> /\ is_space(Head(t)) THEN skip_spaces(Tail(t)) ELSE t

\* line 189: re.sub(r'\s+', ' ', result)
RECURSIVE merge_spaces(_)
merge_spaces(t) ==
    IF t = <<>> THEN <<>>
    ELSE IF is_space(Head(t)) THEN <<32>> \o merge_spaces(skip_spaces(t))
    ELSE <<Head(t)>> \o merge_spaces(Tail(t))

\* line 190: result.strip()
RECURSIVE rstrip(_)
rstrip(t) ==
    IF t # <<>> /\ is_space(t[Len(t)]) THEN rstrip(SubSeq(t, 1, Len(t) - 1))
    ELSE t
strip(t) == rstrip(skip_spaces(t))

\* line 193: result.replace('[?]', '')
RECURSIVE remove_placeholders(_)
remove_placeholders(t) ==
    IF t = <<>> THEN <<>>
    ELSE IF Len(t) >= 3 /\ SubSeq(t, 1, 3) = placeholder
    THEN remove_placeholders(SubSeq(t, 4, Len(t)))
    ELSE <<Head(t)>> \o remove_placeholders(Tail(t))

\* lines 193-194
or_default(result) ==
    IF result = <<>> \/ strip(remove_placeholders(result)) = <<>>
    THEN default_name
    ELSE result

\* clean_filename_for_display with line 188 run before the filter
clean_filename_for_display_MergeFirst(name) ==
    IF name = <<>> THEN name
    ELSE or_default(strip(merge_spaces(
             cleaned_chars(merge_placeholders(replace_emoji(name))))))

\* lines 116-201
clean_filename_for_display(name) ==
    IF name = <<>> THEN name
    ELSE or_default(strip(merge_spaces(
             merge_placeholders(cleaned_chars(replace_emoji(name))))))

CleanInit ==
    /\ PlayerOff
    /\ LoaderOff
    /\ NormalizerOff
    /\ filename \in Filenames
    /\ cleaned = NotReturned

\* the call
clean ==
    /\ ~cleaned.returned
    /\ cleaned' = [returned |-> TRUE,
                   value |-> clean_filename_for_display(filename)]
    /\ UNCHANGED <<player, loader, normalizer, filename>>

CleanNext == clean

CleanSpec == CleanInit /\ [][CleanNext]_vars

\* ------------------------- claims: clean_filename_for_display
\* C18: the function applied to its own result returns that result.
C18_Idempotent ==
    cleaned.returned
    => clean_filename_for_display(cleaned.value) = cleaned.value

\* a name with an unsafe character next to a literal '?' and ']' and a
\* space at its end, which the function changed
C18_Witness ==
    /\ cleaned.returned
    /\ filename = <<63, 9731, 93, 32>>
    /\ cleaned.value = <<63>> \o placeholder

\* the safe set as declared: ASCII printable, Latin-1 supplement, CJK unified
\* ideographs, CJK punctuation (the characters of '[?]' are ASCII)
DeclaredSafe(code) ==
    \/ (32 <= code /\ code <= 126)
    \/ (160 <= code /\ code <= 255)
    \/ (19968 <= code /\ code <= 40959)
    \/ (12288 <= code /\ code <= 12351)

\* the fullwidth punctuation line 164 lets through: , ; : ? ! ( )
FullwidthListed == {65292, 65307, 65306, 65311, 65281, 65288, 65289}

\* C19 as claimed: for a non-empty name every character of the result is in
\* the declared safe set.
C19_DeclaredSafeOnly ==
    (cleaned.returned /\ filename # <<>>)
    => \A i \in DOMAIN cleaned.value : DeclaredSafe(cleaned.value[i])

\* C19 as amended: for a non-empty name every character of the result is in
\* the declared safe set or is one of the fullwidth punctuation marks that
\* line 164 lists.
C19_SafeOrListed ==
    (cleaned.returned /\ filename # <<>>)
    => \A i \in DOMAIN cleaned.value :
         DeclaredSafe(cleaned.value[i]) \/ cleaned.value[i] \in FullwidthListed

\* a name with a snowman, an emoji and a fullwidth comma: the first became
\* '[?]', the second '[fire]', the comma is kept
C19_Witness ==
    /\ cleaned.returned
    /\ filename = <<9731, 128293, 65292>>
    /\ cleaned.value = placeholder \o <<91, 102, 105, 114, 101, 93, 65292>>

====
